---------------------------- MODULE Spec2Model ----------------------------
(***************************************************************************)
(* A model of the GaussianModel parameter container (src/src/gaussian.cu)  *)
(* and of the loadCam image adapter (src/src/camera.cu).                   *)
(*                                                                         *)
(* A torch::Tensor is modelled by what the claims observe of it: its shape *)
(* (a sequence of sizes), how it was filled, its requires_grad flag and    *)
(* the identity of the storage it is a handle to (impl).  The tensor       *)
(* library's shape rules (slicing, broadcasting on assignment, transpose,  *)
(* cat, register_parameter) are operators that either yield a shape or     *)
(* raise; a call that raises keeps the assignments made before the raise.  *)
(***************************************************************************)
EXTENDS Integers, Sequences, FiniteSets, TLC

\* ------------------------------------------------------------------ bounds
MaxDegree == 2
MaxPoints == 3
MaxDim == 2
MaxLoads == 3
MaxOneup == MaxDegree + 5

VARIABLES
  \* GaussianModel fields
  max_sh_degree, active_sh_degree,
  _xyz, _features_dc, _features_rest, _scaling, _rotation, _opacity,
  _max_radii2D, _xyz_gradient_accum, _denom,
  optimizer, parameters_, _spatial_lr_scale, percent_dense,
  _xyz_scheduler_args,
  \* the caller's position: the last call made, its arguments and its outcome
  call, path, n_oneup,
  \* CameraInfo records, the heap of decoded image buffers, loadCam's results
  cam_info, heap, events, n_load, cameras, proc

gvars == <<max_sh_degree, active_sh_degree, _xyz, _features_dc, _features_rest,
           _scaling, _rotation, _opacity, _max_radii2D, _xyz_gradient_accum,
           _denom, optimizer, parameters_, _spatial_lr_scale, percent_dense,
           _xyz_scheduler_args, call, path, n_oneup>>
cvars == <<cam_info, heap, events, n_load, cameras, proc>>
vars == <<gvars, cvars>>

\* ------------------------------------------------------- tensor library
\* A tensor handle.  fill "undefined" is a default-constructed torch::Tensor.
\* impl names the storage: <<"ctor", 0, name>> allocated by the constructor,
\* <<"pcd", 1, name>> by the latest create_from_pcd, <<"pcd", 2, name>> by an
\* earlier one, <<"training_setup", 0, name>> by training_setup.
Tensor(shape, fill, grad, impl) ==
  [shape |-> shape, fill |-> fill, grad |-> grad, impl |-> impl]

UndefinedTensor == Tensor(<<>>, "undefined", FALSE, <<"none", 0, "">>)

\* torch::empty({0}): a one-dimensional tensor of length 0.
EmptyTensor(name) == Tensor(<<0>>, "empty", FALSE, <<"ctor", 0, name>>)

Ok(shape) == [ok |-> TRUE, shape |-> shape]
Raise == [ok |-> FALSE, shape |-> <<>>]

Min(a, b) == IF a < b THEN a ELSE b
Max(a, b) == IF a > b THEN a ELSE b

\* Tensor::size(d), d counted from 0.
Size(t, d) == t.shape[d + 1]

\* Index specifications of torch::indexing: Slice(start, stop) with stop = -1
\* for "to the end", and a plain integer.
Slice(start, stop) == [kind |-> "slice", start |-> start, stop |-> stop]
SliceAll == Slice(0, -1)
SliceFrom(start) == Slice(start, -1)
At(i) == [kind |-> "int", start |-> i, stop |-> i]

SliceLen(dim, s) ==
  LET lo == Min(s.start, dim)
      hi == IF s.stop < 0 THEN dim ELSE Min(s.stop, dim)
  IN Max(hi - lo, 0)

\* Tensor::index / the view index_put_ assigns through: a slice keeps its
\* dimension, an integer selects and removes it, dimensions past the last
\* index are kept.
Index(shape, idx) ==
  IF Len(idx) > Len(shape) \/
     \E p \in 1..Len(idx) :
        idx[p].kind = "int" /\ ~(idx[p].start < shape[p])
  THEN Raise
  ELSE LET marked == [p \in 1..Len(shape) |->
                        IF p > Len(idx) THEN shape[p]
                        ELSE IF idx[p].kind = "int" THEN -1
                        ELSE SliceLen(shape[p], idx[p])]
       IN Ok(SelectSeq(marked, LAMBDA n : n >= 0))

\* slicePrefix1sSize: the source's leading dimensions of size 1 are dropped.
RECURSIVE StripOnes(_)
StripOnes(shape) ==
  IF Len(shape) > 0 /\ shape[1] = 1 THEN StripOnes(Tail(shape)) ELSE shape

\* expand_inplace: sizes are matched from the last dimension backwards.
Expandable(src, dst) ==
  /\ Len(src) <= Len(dst)
  /\ \A i \in 1..Len(src) :
       LET s == src[Len(src) - i + 1]
           d == dst[Len(dst) - i + 1]
       IN s = d \/ s = 1

\* copy_to(dst, src) of set_item: equal sizes copy, otherwise src is
\* broadcast to dst or the assignment raises.
CopyTo(dst, src) == dst = src \/ Expandable(StripOnes(src), dst)

\* Tensor::transpose(d0, d1), dimensions counted from 0.
Transpose(shape, d0, d1) ==
  IF d0 < Len(shape) /\ d1 < Len(shape)
  THEN Ok([p \in 1..Len(shape) |->
             IF p = d0 + 1 THEN shape[d1 + 1]
             ELSE IF p = d1 + 1 THEN shape[d0 + 1] ELSE shape[p]])
  ELSE Raise

Unsqueeze(shape) == Append(shape, 1)

\* Tensor::repeat(reps) with as many repeats as dimensions.
Repeat(shape, reps) == [p \in 1..Len(shape) |-> shape[p] * reps[p]]

\* torch::cat.  One-dimensional tensors of length 0 are skipped; if every
\* tensor is skipped the result is such a tensor and dim is not looked at.
CatSkips(shape) == shape = <<0>>

RECURSIVE SumAt(_, _)
SumAt(shapes, p) ==
  IF shapes = <<>> THEN 0 ELSE Head(shapes)[p] + SumAt(Tail(shapes), p)

Cat(shapes, dim) ==
  LET kept == SelectSeq(shapes, LAMBDA s : ~CatSkips(s))
  IN IF kept = <<>> THEN Ok(<<0>>)
     ELSE LET first == kept[1]
          IN IF /\ dim < Len(first)
                /\ \A i \in 1..Len(kept) :
                     /\ Len(kept[i]) = Len(first)
                     /\ \A p \in 1..Len(first) :
                          p = dim + 1 \/ kept[i][p] = first[p]
             THEN Ok([p \in 1..Len(first) |->
                        IF p = dim + 1 THEN SumAt(kept, p) ELSE first[p]])
             ELSE Raise

\* torch::nn::Module::register_parameter: the ordered dictionary of
\* parameters refuses a name it already holds.
HasKey(dict, name) == \E i \in 1..Len(dict) : dict[i].name = name

\* (variant: a dictionary that overwrites the entry of a name it holds)
RegisterParameterOverwrite(dict, name, tensor) ==
  [ok |-> TRUE,
   dict |-> IF HasKey(dict, name)
            THEN [i \in 1..Len(dict) |->
                    IF dict[i].name = name
                    THEN [name |-> name, tensor |-> tensor] ELSE dict[i]]
            ELSE Append(dict, [name |-> name, tensor |-> tensor])]

RegisterParameter(dict, name, tensor) ==
  IF HasKey(dict, name)
  THEN [ok |-> FALSE, dict |-> dict]
  ELSE [ok |-> TRUE, dict |-> Append(dict, [name |-> name, tensor |-> tensor])]

\* Module::parameters(): the registered tensors in registration order.
Parameters(dict) == [i \in 1..Len(dict) |-> dict[i].tensor]

\* ------------------------------------------------------------ GaussianModel
ParamNames == <<"xyz", "features_dc", "features_rest", "scaling", "rotation",
                "opacity">>

\* Number of SH coefficients: static_cast<long>(std::pow(max_sh_degree + 1, 2)).
NumCoeffs(d) == (d + 1) * (d + 1)

\* Expon_lr_func is kept as the arguments it was constructed from:
\* <<lr_init, lr_final>> by the constructor, and
\* <<lr_init, lr_final, lr_delay_mult, max_steps>> by training_setup.
Expon_lr_func(lr_init, lr_final, lr_delay_mult, max_steps) ==
  <<lr_init, lr_final, lr_delay_mult, max_steps>>

\* A float member the constructor does not initialise, and one that was set.
Indeterminate == [init |-> FALSE, value |-> 0]
Val(v) == [init |-> TRUE, value |-> v]

\* Values the callers pass.  Rates are in units of 1e-7, percent_dense in 1e-2.
Scales == {1, 2}
OptimizationParameters ==
  {[percent_dense |-> 1, position_lr_init |-> 1600, position_lr_final |-> 16,
    position_lr_delay_mult |-> 1, position_lr_max_steps |-> 30000]}

NoCall(op) == [op |-> op, threw |-> 0, np |-> 0, nc |-> 0, out |-> Raise]

\* GaussianModel::GaussianModel(sh_degree)
InitModel(sh_degree) ==
  /\ max_sh_degree = sh_degree
  /\ active_sh_degree = 0
  /\ _xyz_scheduler_args = <<0, 1>>
  /\ _xyz = Tensor(<<0>>, "empty", TRUE, <<"ctor", 0, "xyz">>)
  /\ _features_dc = Tensor(<<0>>, "empty", TRUE, <<"ctor", 0, "features_dc">>)
  /\ _features_rest = Tensor(<<0>>, "empty", TRUE, <<"ctor", 0, "features_rest">>)
  /\ _scaling = Tensor(<<0>>, "empty", TRUE, <<"ctor", 0, "scaling">>)
  /\ _rotation = Tensor(<<0>>, "empty", TRUE, <<"ctor", 0, "rotation">>)
  /\ _opacity = Tensor(<<0>>, "empty", TRUE, <<"ctor", 0, "opacity">>)
  /\ _max_radii2D = EmptyTensor("max_radii2D")
  /\ _xyz_gradient_accum = EmptyTensor("xyz_gradient_accum")
  /\ _denom = UndefinedTensor
  /\ optimizer = <<>>
  /\ parameters_ =
       [i \in 1..Len(ParamNames) |->
          [name |-> ParamNames[i],
           tensor |-> Tensor(<<0>>, "empty", TRUE, <<"ctor", 0, ParamNames[i]>>)]]
  /\ _spatial_lr_scale = Indeterminate
  /\ percent_dense = Indeterminate
  /\ call = NoCall("GaussianModel")
  /\ path = "constructed"
  /\ n_oneup = 0

\* GaussianModel::get_features
GetFeaturesShape(dc, rest) == Cat(<<dc.shape, rest.shape>>, 1)

get_features ==
  /\ call' = [NoCall("get_features") EXCEPT
                !.out = GetFeaturesShape(_features_dc, _features_rest),
                !.threw = IF GetFeaturesShape(_features_dc, _features_rest).ok
                          THEN 0 ELSE 55]
  /\ path' = "other"
  /\ UNCHANGED <<max_sh_degree, active_sh_degree, _xyz, _features_dc,
                 _features_rest, _scaling, _rotation, _opacity, _max_radii2D,
                 _xyz_gradient_accum, _denom, optimizer, parameters_,
                 _spatial_lr_scale, percent_dense, _xyz_scheduler_args,
                 n_oneup>>

\* GaussianModel::oneupSHdegree
\* (variants: no saturation test; the test off by one)
OneUpUnguarded(active, maxd) == active + 1
OneUpOffByOne(active, maxd) == IF active <= maxd THEN active + 1 ELSE active

OneUp(active, maxd) == IF active < maxd THEN active + 1 ELSE active

oneupSHdegree ==
  /\ n_oneup < MaxOneup
  /\ active_sh_degree' = OneUp(active_sh_degree, max_sh_degree)
  /\ n_oneup' = n_oneup + 1
  /\ call' = NoCall("oneupSHdegree")
  /\ path' = "other"
  /\ UNCHANGED <<max_sh_degree, _xyz, _features_dc, _features_rest, _scaling,
                 _rotation, _opacity, _max_radii2D, _xyz_gradient_accum,
                 _denom, optimizer, parameters_, _spatial_lr_scale,
                 percent_dense, _xyz_scheduler_args>>

\* GaussianModel::create_from_pcd, by line.
\* 82: from_blob over _points with the single size _points.size().
\* (variant: the size counted in floats, three per point)
FusedPointCloudShapeFloats(np) == <<3 * np>>

FusedPointCloudShape(np) == <<np>>

\* 83: RGB2SH over from_blob of _colors with the single size _colors.size();
\* RGB2SH works element by element and keeps the shape.
FusedColorShape(nc) == <<nc>>

\* 85: torch::zeros({fused_color.size(0), 3, (max_sh_degree + 1)^2})
FeaturesShape(nc, d) == <<nc, 3, NumCoeffs(d)>>

\* 86: features[:, 0:3, 0] = fused_color
PutColorOk(features, fused_color) ==
  LET view == Index(features, <<SliceAll, Slice(0, 3), At(0)>>)
  IN view.ok /\ CopyTo(view.shape, fused_color)

\* 87: features[:, 3:, 1:] = 0.0 (a scalar fills any view)
PutZeroOk(features) == Index(features, <<SliceAll, SliceFrom(3), SliceFrom(1)>>).ok

\* 91-92: log(sqrt(clamp_min(distCUDA2(points), 1e-7))).unsqueeze(-1).repeat({1, 3});
\* distCUDA2 yields one squared distance per row of its argument.
ScalesShape(points) == Repeat(Unsqueeze(<<points[1]>>), <<1, 3>>)

\* 93-94: zeros({N, 4}) with column 0 set to 1.
RotsShape(points) == <<points[1], 4>>
PutOneOk(rots) == Index(rots, <<SliceAll, At(0)>>).ok

\* 96: inverse_sigmoid(0.5 * ones({N, 1}))
OpacitiesShape(points) == <<points[1], 1>>

\* 99: features.index({Slice(), Slice(), 0}).transpose(1, 2)
FeaturesDcShape(features) ==
  LET view == Index(features, <<SliceAll, SliceAll, At(0)>>)
  IN IF view.ok THEN Transpose(view.shape, 1, 2) ELSE Raise

\* 100: features.index({Slice(), Slice(), Slice(1)}).transpose(1, 2)
FeaturesRestShape(features) ==
  LET view == Index(features, <<SliceAll, SliceAll, SliceFrom(1)>>)
  IN IF view.ok THEN Transpose(view.shape, 1, 2) ELSE Raise

\* 104: torch::zeros({_xyz.size(0)})
MaxRadiiShape(xyz) == <<Size(xyz, 0)>>

\* The line at which create_from_pcd raises (0: it returns).  distCUDA2 is an
\* external CUDA routine handed a one-dimensional tensor; knn_fault is the
\* outcome in which it reports a device fault.
ThrowLine(np, nc, d, knn_fault) ==
  LET features == FeaturesShape(Size([shape |-> FusedColorShape(nc)], 0), d)
  IN IF ~PutColorOk(features, FusedColorShape(nc)) THEN 86
     ELSE IF ~PutZeroOk(features) THEN 87
     ELSE IF knn_fault THEN 91
     ELSE IF ~PutOneOk(RotsShape(FusedPointCloudShape(np))) THEN 94
     ELSE IF ~FeaturesDcShape(features).ok THEN 99
     ELSE IF ~FeaturesRestShape(features).ok THEN 100
     ELSE 0

\* Handles that still name the storage of the cloud loaded before this one.
EarlierTensor(t) ==
  IF t.impl[1] = "pcd" THEN [t EXCEPT !.impl[2] = 2] ELSE t
EarlierTensors(ts) == [i \in 1..Len(ts) |-> EarlierTensor(ts[i])]
Earlier(dict) ==
  [i \in 1..Len(dict) |-> [dict[i] EXCEPT !.tensor = EarlierTensor(@)]]

\* The statement at `line` completes: the call raises later, or not at all.
Completes(line, thrown) == thrown = 0 \/ line < thrown

Assigned(line, thrown, new, old) == IF Completes(line, thrown) THEN new ELSE old

CreateFromPcd(np, nc, spatial_lr_scale, thrown) ==
  LET gen == 1   \* storage of the latest cloud; older storage is renamed 2
      points == FusedPointCloudShape(np)
      features == FeaturesShape(Size([shape |-> FusedColorShape(nc)], 0),
                                max_sh_degree)
      xyz == Assigned(98, thrown,
                      Tensor(points, "points", TRUE, <<"pcd", gen, "xyz">>), _xyz)
  IN /\ _spatial_lr_scale' = Val(spatial_lr_scale)
     /\ _xyz' = xyz
     /\ _features_dc' =
          Assigned(99, thrown,
                   Tensor(FeaturesDcShape(features).shape, "sh_dc", FALSE,
                          <<"pcd", gen, "features_dc">>), _features_dc)
     /\ _features_rest' =
          Assigned(100, thrown,
                   Tensor(FeaturesRestShape(features).shape, "zeros", FALSE,
                          <<"pcd", gen, "features_rest">>), _features_rest)
     /\ _scaling' =
          Assigned(101, thrown,
                   Tensor(ScalesShape(points), "log_dist", FALSE,
                          <<"pcd", gen, "scaling">>), _scaling)
     /\ _rotation' =
          Assigned(102, thrown,
                   Tensor(RotsShape(points), "identity_quat", FALSE,
                          <<"pcd", gen, "rotation">>), _rotation)
     /\ _opacity' =
          Assigned(103, thrown,
                   Tensor(OpacitiesShape(points), "logit_half", FALSE,
                          <<"pcd", gen, "opacity">>), _opacity)
     /\ _max_radii2D' =
          Assigned(104, thrown,
                   Tensor(MaxRadiiShape(xyz), "zeros", FALSE,
                          <<"pcd", gen, "max_radii2D">>), _max_radii2D)
     /\ parameters_' = Assigned(98, thrown, Earlier(parameters_), parameters_)
     /\ optimizer' =
          Assigned(98, thrown,
                   [i \in 1..Len(optimizer) |->
                      [optimizer[i] EXCEPT
                         !.params = EarlierTensors(optimizer[i].params)]],
                   optimizer)
     /\ call' = [NoCall("create_from_pcd") EXCEPT
                   !.threw = thrown, !.np = np, !.nc = nc]
     /\ path' = IF path = "constructed" /\ np = nc /\ np > 0
                THEN "created" ELSE "other"
     /\ UNCHANGED <<max_sh_degree, active_sh_degree, _xyz_gradient_accum,
                    _denom, percent_dense, _xyz_scheduler_args, n_oneup>>

create_from_pcd ==
  \E np \in 0..MaxPoints, nc \in 0..MaxPoints :
    \E thrown \in {ThrowLine(np, nc, max_sh_degree, knn_fault) :
                      knn_fault \in BOOLEAN} :
      \E s \in Scales : CreateFromPcd(np, nc, s, thrown)

\* GaussianModel::training_setup, by line.
\* 117-118: torch::zeros({_xyz.size(0), 1})
\* (variant: the two sizes swapped)
AccumShapeSwapped(xyz) == <<1, Size(xyz, 0)>>

AccumShape(xyz) == <<Size(xyz, 0), 1>>

\* 120: register_parameter sets requires_grad on the storage it is handed,
\* then inserts; every handle to that storage sees the flag.
SetRequiresGrad(dict, impl) ==
  [i \in 1..Len(dict) |->
     IF dict[i].tensor.impl = impl
     THEN [dict[i] EXCEPT !.tensor.grad = TRUE] ELSE dict[i]]

\* 121: Adam(parameters(), AdamOptions(0.0).eps(1e-15))
Adam(params) == [params |-> params, lr |-> 0, eps |-> "1e-15"]

\* 122-125; reading _spatial_lr_scale before create_from_pcd set it yields
\* whatever the member holds.
SchedulerArgs(params, scale, garbage) ==
  LET s == IF scale.init THEN scale.value ELSE garbage
  IN Expon_lr_func(params.position_lr_init * s, params.position_lr_final * s,
                   params.position_lr_delay_mult, params.position_lr_max_steps)

TrainingSetup(params, garbage) ==
  LET reg == RegisterParameter(SetRequiresGrad(parameters_, _xyz.impl), "xyz",
                               [_xyz EXCEPT !.grad = TRUE])
  IN /\ percent_dense' = Val(params.percent_dense)
     /\ _xyz_gradient_accum' =
          Tensor(AccumShape(_xyz), "zeros", FALSE,
                 <<"training_setup", 0, "xyz_gradient_accum">>)
     /\ _denom' =
          Tensor(AccumShape(_xyz), "zeros", FALSE,
                 <<"training_setup", 0, "denom">>)
     /\ _xyz' = [_xyz EXCEPT !.grad = TRUE]
     /\ parameters_' = reg.dict
     /\ optimizer' = IF reg.ok THEN <<Adam(Parameters(reg.dict))>> ELSE optimizer
     /\ _xyz_scheduler_args' =
          IF reg.ok THEN SchedulerArgs(params, _spatial_lr_scale, garbage)
          ELSE _xyz_scheduler_args
     /\ call' = [NoCall("training_setup") EXCEPT
                   !.threw = IF reg.ok THEN 0 ELSE 120]
     /\ path' = IF path = "created" THEN "setup" ELSE "other"
     /\ UNCHANGED <<max_sh_degree, active_sh_degree, _features_dc,
                    _features_rest, _scaling, _rotation, _opacity,
                    _max_radii2D, _spatial_lr_scale, n_oneup>>

training_setup ==
  \E params \in OptimizationParameters, garbage \in Scales :
    TrainingSetup(params, garbage)

\* ------------------------------------------------------------------ camera
\* The CameraInfo records the loader holds, and the uids callers pass.
Cams == 1..2
Uids == {0, 7}
Patterns == {"white", "ramp"}

\* The decoded 8-bit image: byte i (from 0) of a buffer of n bytes.
ByteAt(pattern, i) == IF pattern = "white" THEN 255 ELSE (i * 37) % 256
Bytes(pattern, n) == [i \in 1..n |-> ByteAt(pattern, i - 1)]

\* 41-44: from_blob over _img_data with sizes {h, w, c} and strides
\* {w * c, c, 1}: element (y, x, ch) is the byte at y*w*c + x*c + ch.
BlobAt(bytes, w, c, y, x, ch) == bytes[y * w * c + x * c + ch + 1]

\* 45: .to(kFloat32).permute({2, 0, 1}).clone() / 255.f; a value is kept as
\* its numerator over 255.
ImageTensor(bytes, h, w, c) ==
  [shape |-> <<c, h, w>>,
   data |-> [ix \in (0..(c - 1)) \X (0..(h - 1)) \X (0..(w - 1)) |->
               BlobAt(bytes, w, c, ix[2], ix[3], ix[1])]]

\* Camera::Camera, 24-26: the image clamped to [0, 1], width and height read
\* from dimensions 2 and 1.
Clamp(image) ==
  [image EXCEPT !.data = [ix \in DOMAIN image.data |->
                            Max(0, Min(255, image.data[ix]))]]

Camera(colmap_id, image, uid) ==
  [_colmap_id |-> colmap_id, _uid |-> uid, _original_image |-> Clamp(image),
   _image_width |-> Clamp(image).shape[3],
   _image_height |-> Clamp(image).shape[2]]

\* The accesses loadCam makes to the buffer _img_data points to, in the
\* order of the code: the copy of line 45, then free_image of line 47; each
\* with what the buffer was when it was made.  free_image(nullptr) and a copy
\* of no bytes touch nothing.
LoadCamEvents(ptr, state) ==
  IF ptr = 0 THEN <<>>
  ELSE <<[op |-> "read", buffer |-> state], [op |-> "free", buffer |-> state]>>

\* 48: cam_info._img_data = nullptr
\* (variant: the pointer left as it was)
ImgDataKept(ptr) == ptr

ImgDataAfterLoad(ptr) == 0

\* loadCam(params, id, cam_info[k]).  Address 0 is nullptr; converting a
\* non-empty image through a null pointer ends the process.
loadCam(k, id) ==
  LET info == cam_info[k]
      ptr == info._img_data
      n == info._img_h * info._img_w * info._channels
  IN /\ proc = "running"
     /\ n_load[k] < MaxLoads
     /\ n_load' = [n_load EXCEPT ![k] = @ + 1]
     /\ IF ptr = 0 /\ n > 0
        THEN /\ proc' = "crashed"
             /\ UNCHANGED <<cam_info, heap, events, cameras>>
        ELSE LET bytes == IF ptr = 0 THEN <<>> ELSE heap[ptr].bytes
                 image == ImageTensor(bytes, info._img_h, info._img_w,
                                      info._channels)
             IN /\ events' = [events EXCEPT ![k] =
                                @ \o LoadCamEvents(ptr,
                                       IF ptr = 0 THEN "none"
                                       ELSE heap[ptr].state)]
                /\ heap' = IF ptr = 0 THEN heap
                           ELSE [heap EXCEPT ![ptr].state = "freed"]
                /\ cam_info' = [cam_info EXCEPT
                                  ![k]._img_data = ImgDataAfterLoad(ptr)]
                /\ cameras' = [cameras EXCEPT ![k] =
                                 <<Camera(info._camera_ID, image, id)>>]
                /\ proc' = proc

InitCam ==
  /\ \E hs \in [Cams -> 0..MaxDim], ws \in [Cams -> 1..MaxDim],
        cs \in [Cams -> {1, 3}], ps \in [Cams -> Patterns] :
       /\ cam_info = [k \in Cams |->
                        [_img_data |-> k, _img_h |-> hs[k], _img_w |-> ws[k],
                         _channels |-> cs[k], _camera_ID |-> 100 + k]]
       /\ heap = [k \in Cams |->
                    [state |-> "allocated",
                     bytes |-> Bytes(ps[k], hs[k] * ws[k] * cs[k])]]
  /\ events = [k \in Cams |-> <<>>]
  /\ n_load = [k \in Cams |-> 0]
  /\ cameras = [k \in Cams |-> <<>>]
  /\ proc = "running"

\* --------------------------------------------------------- specification
InitCamIdle ==
  /\ cam_info = <<>> /\ heap = <<>> /\ events = <<>> /\ n_load = <<>>
  /\ cameras = <<>> /\ proc = "running"

Init == (\E d \in 0..MaxDegree : InitModel(d)) /\ InitCamIdle

Next ==
  \/ get_features /\ UNCHANGED cvars
  \/ oneupSHdegree /\ UNCHANGED cvars
  \/ create_from_pcd /\ UNCHANGED cvars
  \/ training_setup /\ UNCHANGED cvars

Spec == Init /\ [][Next]_vars

\* The camera loader on its own, beside a freshly constructed model.
NextCam == \E k \in Cams, id \in Uids : loadCam(k, id) /\ UNCHANGED gvars

InitLoader == InitModel(0) /\ InitCam

SpecCam == InitLoader /\ [][NextCam]_vars

\* ----------------------------------------------------------------- claims
\* N: the first dimension of xyz.
NumPoints == Size(_xyz, 0)

ModelTensors == <<_xyz, _features_dc, _features_rest, _scaling, _rotation,
                  _opacity, _max_radii2D>>

\* The last call was create_from_pcd on a valid cloud: as many colors as
\* positions, and at least one.
AfterValidCreate ==
  call.op = "create_from_pcd" /\ call.np = call.nc /\ call.np > 0

\* The lifecycle state the fields show, as a rank: 1 Uninitialized (N = 0),
\* 2 Populated, 3 TrainingReady (optimizer constructed).
LifecycleRank ==
  IF optimizer # <<>> THEN 3 ELSE IF NumPoints > 0 THEN 2 ELSE 1

\* C1: 0 <= active_sh_degree <= max_sh_degree in every reachable state, and
\* no step decreases active_sh_degree.
C1_DegreeBoundedMonotone ==
  /\ [](0 <= active_sh_degree /\ active_sh_degree <= max_sh_degree)
  /\ [][active_sh_degree' >= active_sh_degree]_vars

C1_Witness ==
  /\ active_sh_degree = max_sh_degree /\ max_sh_degree > 0
  /\ n_oneup > max_sh_degree /\ _xyz.impl[1] = "pcd" /\ _denom.fill = "zeros"

\* C2: oneupSHdegree adds exactly 1 below max_sh_degree and is a no-op at it,
\* so after k calls on a constructed model active_sh_degree = min(k,
\* max_sh_degree); max_sh_degree + 5 calls leave it at max_sh_degree.
C2_OneUpSaturates ==
  /\ [](active_sh_degree = Min(n_oneup, max_sh_degree))
  /\ [][call'.op = "oneupSHdegree" =>
          active_sh_degree' = IF active_sh_degree < max_sh_degree
                              THEN active_sh_degree + 1
                              ELSE active_sh_degree]_vars

C2_Witness ==
  /\ n_oneup = max_sh_degree + 5 /\ max_sh_degree > 0
  /\ active_sh_degree = max_sh_degree

\* C3: after create_from_pcd on a valid cloud of N points, xyz, features_dc,
\* features_rest, scaling, rotation, opacity and max_radii2D all have first
\* dimension N.
C3_AllFirstDimsN ==
  AfterValidCreate =>
    \A i \in 1..Len(ModelTensors) : Size(ModelTensors[i], 0) = call.np

C5_InvalidCloudRejected ==
  [][(call'.op = "create_from_pcd" /\ (call'.np = 0 \/ call'.np # call'.nc)) =>
       /\ call'.threw # 0
       /\ \A i \in 1..Len(ModelTensors) :
            ModelTensors[i]'.shape = ModelTensors[i].shape]_vars

\* C6 as stated: no step moves the lifecycle backwards, and once
\* create_from_pcd has set N (to some N > 0) no later call changes N.
C6_ForwardOnlyFixedN ==
  [][/\ LifecycleRank' >= LifecycleRank
     /\ ((_xyz.impl[1] = "pcd" /\ NumPoints > 0) =>
           NumPoints' = NumPoints)]_vars

\* C6 amended: training_setup, oneupSHdegree and get_features neither change
\* N nor move the lifecycle backwards; create_from_pcd leaves N as it was or
\* sets it to the number of positions it was given, on every call.
C6_ForwardOnlyExceptCreate ==
  [][/\ (call'.op \in {"training_setup", "oneupSHdegree", "get_features"} =>
           NumPoints' = NumPoints /\ LifecycleRank' >= LifecycleRank)
     /\ (call'.op = "create_from_pcd" =>
           NumPoints' \in {NumPoints, call'.np})]_vars

C6_Witness ==
  /\ call.op = "create_from_pcd" /\ call.threw = 99
  /\ NumPoints = call.np /\ NumPoints > 0 /\ _denom.fill = "zeros"
  /\ Size(_denom, 0) # NumPoints

\* C7: loadCam releases a CameraInfo's image buffer exactly once, after the
\* copy, and leaves _img_data null on return; over any sequence of loadCam
\* calls the buffer is never released twice and never read once released.
C7_ReleasedOnceAfterCopy ==
  \A k \in Cams :
    LET ev == events[k]
        frees == {i \in 1..Len(ev) : ev[i].op = "free"}
    IN /\ Cardinality(frees) <= 1
       /\ \A i \in 1..Len(ev) : ev[i].buffer = "allocated"
       /\ \A i \in frees : \E j \in 1..(i - 1) : ev[j].op = "read"
       /\ \A i \in frees : \A j \in (i + 1)..Len(ev) : ev[j].op # "read"
       /\ (cameras[k] # <<>> =>
             cam_info[k]._img_data = 0 /\ Cardinality(frees) = 1)
       /\ (heap[k].state = "freed" <=> Cardinality(frees) = 1)

C7_Witness ==
  \E k \in Cams :
    /\ n_load[k] >= 2 /\ Len(events[k]) = 2 /\ cameras[k] # <<>>
    /\ cam_info[k]._img_h > 0 /\ proc = "crashed"

\* C8: after create_from_pcd on a valid cloud of N points with
\* max_sh_degree = d, features_dc is N x 1 x 3, features_rest is
\* N x ((d+1)^2 - 1) x 3 and get_features() returns N x (d+1)^2 x 3;
\* get_features() changes no stored state.
C8_FeatureShapes ==
  /\ [](AfterValidCreate =>
          /\ _features_dc.shape = <<call.np, 1, 3>>
          /\ _features_rest.shape =
               <<call.np, NumCoeffs(max_sh_degree) - 1, 3>>
          /\ GetFeaturesShape(_features_dc, _features_rest) =
               Ok(<<call.np, NumCoeffs(max_sh_degree), 3>>))
  /\ [][call'.op = "get_features" =>
          UNCHANGED <<max_sh_degree, active_sh_degree, _xyz, _features_dc,
                      _features_rest, _scaling, _rotation, _opacity,
                      _max_radii2D, _xyz_gradient_accum, _denom, optimizer,
                      parameters_, _spatial_lr_scale, percent_dense,
                      _xyz_scheduler_args>>]_vars

\* C9: after constructor, create_from_pcd (valid cloud), training_setup, the
\* optimizer is bound to exactly the six tensors the model now holds as xyz,
\* features_dc, features_rest, scaling, rotation and opacity, each with first
\* dimension N and gradient tracking on.
C9_OptimizerBoundToCurrent ==
  path = "setup" =>
    /\ optimizer # <<>>
    /\ optimizer[1].params =
         <<_xyz, _features_dc, _features_rest, _scaling, _rotation, _opacity>>
    /\ \A i \in 1..Len(optimizer[1].params) :
         /\ Size(optimizer[1].params[i], 0) = NumPoints
         /\ optimizer[1].params[i].grad
    /\ NumPoints > 0

\* Both accumulators are defined and as long as xyz.
AccumSized ==
  /\ _denom.fill # "undefined"
  /\ Size(_xyz_gradient_accum, 0) = NumPoints
  /\ Size(_denom, 0) = NumPoints

\* Both accumulators are all-zero tensors of shape N x 1.
AccumReset ==
  /\ _xyz_gradient_accum.shape = <<NumPoints, 1>>
  /\ _xyz_gradient_accum.fill = "zeros"
  /\ _denom.shape = <<NumPoints, 1>>
  /\ _denom.fill = "zeros"

\* C10 as stated: training_setup resets both accumulators to zeros of shape
\* N x 1, and in every state reachable afterwards their first dimension is
\* that of xyz.
C10_AccumAlwaysSized ==
  /\ (call.op = "training_setup" => AccumReset)
  /\ (_denom.fill # "undefined" => AccumSized)

\* C10 amended: training_setup resets both accumulators to zeros of shape
\* N x 1, and training_setup, oneupSHdegree and get_features keep their first
\* dimension equal to that of xyz.
C10_AccumSizedUntilCreate ==
  [][/\ (call'.op = "training_setup" => AccumReset')
     /\ ((AccumSized /\ call'.op \in {"training_setup", "oneupSHdegree",
                                       "get_features"}) => AccumSized')]_vars

C10_Witness ==
  /\ call.op = "oneupSHdegree" /\ AccumSized /\ AccumReset /\ NumPoints > 0

=============================================================================
